---- MODULE Spec2Model ----
(***************************************************************************)
(* Model of pysam's setup.py: the module-level configuration of htslib     *)
(* (configure_library, link-mode selection, declaration of the extension   *)
(* modules) followed by the build_ext command (cy_build_ext) that builds   *)
(* the modules in order and then checks the built modules for symbols      *)
(* defined in more than one of them.                                       *)
(*                                                                         *)
(* Strings are Python strings.  os.environ and sysconfig.get_config_vars() *)
(* are functions whose DOMAIN is the set of variables that are set.  The   *)
(* outcome of every subprocess (configure, make, nm, the compiler) is      *)
(* chosen nondeterministically when it is run.                             *)
(***************************************************************************)
EXTENDS FiniteSets, Integers, Sequences, TLC

VARIABLES
    pc,                       \* position in setup.py
    exc,                      \* the exception that ended the run, or None
    HTSLIB_MODE,              \* line 403
    HTSLIB_LIBRARY_DIR,       \* line 404
    HTSLIB_INCLUDE_DIR,       \* line 405
    HTSLIB_CONFIGURE_OPTIONS, \* line 406
    HTSLIB_SOURCE,            \* line 407, 455
    environ,                  \* os.environ
    sysconf,                  \* sysconfig.get_config_vars()
    cwd,                      \* os.getcwd()
    save_dir,                 \* save_dir of the active changedir() blocks
    tmp_vars,                 \* tmp_vars of the active set_compiler_envvars()
    on_rtd,                   \* configure_library: on_rtd
    env_options,              \* configure_library: env_options
    options,                  \* configure_library: options not yet tried
    tried,                    \* configure_library: the run_configure calls made
    htslib_configure_options, \* line 442, 449
    files,                    \* files that exist under htslib/
    config_h,                 \* what htslib/config.h holds
    config_py,                \* what pysam/config.py was derived from
    htslib_make_options,      \* line 468
    external_htslib_libraries,
    htslib_objects,
    separate_htslib_objects,
    htslib_library_dirs,
    htslib_include_dirs,
    modules,                  \* line 616: the declared extension modules
    force,                    \* build_ext --force
    IS_DARWIN,                \* line 46
    next_ext,                 \* index of the extension build_ext works on
    built,                    \* names of the extensions compiled and linked
    nm_out,                   \* what nm gave for each extension in the check
    conflicts,                \* entries logged by check_ext_symbol_conflicts
    log,                      \* other messages logged
    entry_environ,            \* os.environ when set_compiler_envvars was entered
    entry_cwd,                \* os.getcwd() when the outermost changedir was entered
    counts,                   \* how often chdir, configure, make, the check ran
    config_vars,              \* what write_configvars_header wrote, by file name
    defined_symbols           \* what each call of run_nm_defined_symbols returned

vars == <<pc, exc, HTSLIB_MODE, HTSLIB_LIBRARY_DIR, HTSLIB_INCLUDE_DIR,
          HTSLIB_CONFIGURE_OPTIONS, HTSLIB_SOURCE, environ, sysconf, cwd,
          save_dir, tmp_vars, on_rtd, env_options, options, tried,
          htslib_configure_options, files, config_h, config_py,
          htslib_make_options, external_htslib_libraries,
          htslib_objects, separate_htslib_objects, htslib_library_dirs,
          htslib_include_dirs, modules, force, IS_DARWIN, next_ext, built,
          nm_out, conflicts, log, entry_environ, entry_cwd, counts>>

None == "None"

-----------------------------------------------------------------------------
(* Bounds and input domains *)

\* longest LIBHTS_OBJS list that make print-config reports
MaxObjs == 2

\* number of extensions whose nm listing may hold symbols
MaxOwners == 2

ObjNames == <<"hts.o", "sam.o", "vcf.o">>

ModeValues == {None, "shared", "separate", "external", "bogus"}

LibraryDirValues == {None, "", "/opt/hts/lib"}

IncludeDirValues == {None, "/opt/hts/include"}

ConfigureOptionValues == {None, "--with-libdeflate"}

ReadTheDocsValues == {None, "True"}

CompilerVars == <<"CC", "CFLAGS", "LDFLAGS">>

CompilerValue(var) ==
    CASE var = "CC" -> "clang"
      [] var = "CFLAGS" -> "-O2"
      [] var = "LDFLAGS" -> "-L/opt/lib"
      [] var = "CPPFLAGS" -> "-DFROM_ENV"

SysconfigValue(var) ==
    CASE var = "CC" -> "gcc"
      [] var = "CFLAGS" -> "-g"
      [] var = "LDFLAGS" -> "-s"
      [] var = "CCSHARED" -> "-fPIC"
      [] var = "CPPFLAGS" -> "-DFROM_SYSCONFIG"

Range(s) == {s[i] : i \in DOMAIN s}

\* the compiler variables that are set in the environment
CompilerEnvirons ==
    {[v \in D |-> CompilerValue(v)] : D \in SUBSET Range(CompilerVars)}

\* an environment: the variables whose value is not None are set
environment(mode, library_dir, include_dir, configure_options, rtd, compiler) ==
    LET all == [HTSLIB_MODE |-> mode,
                HTSLIB_LIBRARY_DIR |-> library_dir,
                HTSLIB_INCLUDE_DIR |-> include_dir,
                HTSLIB_CONFIGURE_OPTIONS |-> configure_options,
                READTHEDOCS |-> rtd]
        set == {v \in DOMAIN all : all[v] # None}
    IN  [v \in set |-> all[v]] @@ compiler

SysconfigValues ==
    {[v \in D |-> SysconfigValue(v)] :
        D \in {{"CC", "CFLAGS", "LDFLAGS", "CCSHARED"},
               {"CC", "CFLAGS", "LDFLAGS"},
               {"CC"}}}

StartDir == "/src/pysam"

\* lines 617-668: the names of the declared modules, in order
ModuleNames ==
    <<"pysam.libchtslib", "pysam.libcsamtools", "pysam.libcbcftools",
      "pysam.libcutils", "pysam.libcalignmentfile", "pysam.libcsamfile",
      "pysam.libcalignedsegment", "pysam.libctabix", "pysam.libcfaidx",
      "pysam.libcbcf", "pysam.libcbgzf", "pysam.libctabixproxies",
      "pysam.libcvcf">>

\* the output of nm -g -P for one extension, or the exception it ends with
nm_ok(lines) == [status |-> "ok", lines |-> lines]
nm_fails(e) == [status |-> e, lines |-> <<>>]

NmErrors == {"OSError", "CalledProcessError"}

ListingValues ==
    {<<"foo T 10 4">>,
     <<"foo T 10 4", "bar D 20 8">>,
     <<"_foo T 10 4", "bar U">>}

\* the extensions whose listing varies
Inspected == 1..MaxOwners

nm_table(S, g) ==
    [i \in 1..Len(ModuleNames) |-> IF i \in S THEN nm_ok(g[i]) ELSE nm_ok(<<>>)]

\* nm succeeds for every extension, at most MaxOwners listings have lines
NmTables ==
    UNION {{nm_table(S, g) : g \in [S -> ListingValues]} :
            S \in SUBSET Inspected}

\* nm fails for one extension, the first MaxOwners listings define foo
NmFailures ==
    {[nm_table(1..MaxOwners, [j \in 1..MaxOwners |-> <<"foo T 10 4">>])
        EXCEPT ![i] = nm_fails(e)] :
        i \in 1..(MaxOwners + 1), e \in NmErrors}

NmValues == NmTables \cup NmFailures

\* one nm output: the first two extensions both define foo
NmFew == {nm_table({1, 2}, [j \in {1, 2} |-> <<"foo T 10 4">>])}

RECURSIVE join(_, _)
\* sep.join(words)
join(words, sep) ==
    IF words = <<>> THEN ""
    ELSE IF Len(words) = 1 THEN Head(words)
    ELSE Head(words) \o sep \o join(Tail(words), sep)

\* values of LIBHTS_OBJS in the output of make print-config
LibhtsObjsValues == {join(SubSeq(ObjNames, 1, n), " ") : n \in 1..MaxObjs}

\* values of LIBS in the output of make print-config
LibsValues == {"-lbz2 -lm"}

\* the variables that make print-config may report
MakePrintConfigValues ==
    {<<>>}
    \cup {[k \in {"LIBHTS_OBJS"} |-> o] : o \in LibhtsObjsValues}
    \cup {("LIBHTS_OBJS" :> ObjNames[1]) @@ ("LIBS" :> l) : l \in LibsValues}

SysconfigFull ==
    [v \in {"CC", "CFLAGS", "LDFLAGS", "CCSHARED"} |-> SysconfigValue(v)]

\* every object file that make lib-static may build
ObjectFiles == {"htslib/" \o ObjNames[i] : i \in 1..Len(ObjNames)}

FilesAll == {"htslib/configure", "htslib/libhts.a"} \cup ObjectFiles

\* htslib/ before the run: with or without a configure script; nothing
\* built, the object files without the archive, the archive without the
\* object files, or both
FilesValues ==
    {c \cup b :
        c \in {{}, {"htslib/configure"}},
        b \in {{}, ObjectFiles, {"htslib/libhts.a"},
               ObjectFiles \cup {"htslib/libhts.a"}}}

-----------------------------------------------------------------------------
(* changedir, lines 51-58 *)

\* os.chdir(path) after save_dir = os.getcwd()
changedir_enter(st, path) ==
    [st EXCEPT !.save_dir = <<st.cwd>> \o @,
               !.cwd = IF SubSeq(path, 1, 1) = "/" THEN path
                       ELSE st.cwd \o "/" \o path,
               !.chdirs = @ + 1]

\* changedir without try/finally: an exception leaves the directory changed
changedir_exit_without_finally(st, how) ==
    IF how = "raise"
    THEN [st EXCEPT !.save_dir = Tail(@)]
    ELSE [st EXCEPT !.cwd = Head(st.save_dir),
                    !.save_dir = Tail(@),
                    !.chdirs = @ + 1]

\* finally: os.chdir(save_dir); how is "end", "return" or "raise"
changedir_exit(st, how) ==
    [st EXCEPT !.cwd = Head(st.save_dir),
               !.save_dir = Tail(@),
               !.chdirs = @ + 1]

(* set_compiler_envvars, lines 169-189 *)

\* one iteration of the loop of lines 172-183
envvars_step(env, var) ==
    IF var \in DOMAIN env.environ
    THEN IF var = "CFLAGS" /\ "CCSHARED" \in DOMAIN sysconf
         THEN [env EXCEPT !.environ[var] = @ \o " " \o sysconf["CCSHARED"]]
         ELSE env
    ELSE IF var \in DOMAIN sysconf
         THEN LET value == IF var = "CFLAGS" /\ "CCSHARED" \in DOMAIN sysconf
                           THEN sysconf[var] \o " " \o sysconf["CCSHARED"]
                           ELSE sysconf[var]
              IN  [environ |-> (var :> value) @@ env.environ,
                   tmp_vars |-> Append(env.tmp_vars, var)]
         ELSE env

RECURSIVE envvars_loop(_, _)
envvars_loop(env, todo) ==
    IF todo = <<>> THEN env
    ELSE envvars_loop(envvars_step(env, Head(todo)), Tail(todo))

\* the part of set_compiler_envvars before the yield
set_compiler_envvars_enter(e) ==
    envvars_loop([environ |-> e, tmp_vars |-> <<>>], CompilerVars)

\* finally: for var in tmp_vars: del os.environ[var]
set_compiler_envvars_exit(e, tmp, how) ==
    [v \in DOMAIN e \ Range(tmp) |-> e[v]]

-----------------------------------------------------------------------------
(* Python string helpers *)

\* x in s for Python strings
is_substring(x, s) ==
    \E i \in 1..(Len(s) + 1) :
        i + Len(x) - 1 <= Len(s) /\ SubSeq(s, i, i + Len(x) - 1) = x

RECURSIVE split(_, _)
\* s.split(sep) for a one-character sep
split(s, sep) ==
    LET hits == {i \in 1..Len(s) : SubSeq(s, i, i) = sep}
    IN  IF hits = {} THEN <<s>>
        ELSE LET i == CHOOSE j \in hits : \A k \in hits : j <= k
             IN  <<SubSeq(s, 1, i - 1)>> \o split(SubSeq(s, i + 1, Len(s)), sep)

\* re.sub("^-l", "", x)
sub_dash_l(x) ==
    IF Len(x) >= 2 /\ SubSeq(x, 1, 2) = "-l" THEN SubSeq(x, 3, Len(x)) ELSE x

\* os.path.join(a, b) for a relative b
path_join(a, b) == a \o "/" \o b

\* os.path.abspath(x) for a normalised x
abspath(x) == IF SubSeq(x, 1, 1) = "/" THEN x
              ELSE IF x = "." THEN cwd ELSE cwd \o "/" \o x

Map(f(_), s) == [i \in 1..Len(s) |-> f(s[i])]

-----------------------------------------------------------------------------
(* The state before setup.py runs *)

Dir == [cwd |-> cwd, save_dir |-> save_dir, chdirs |-> counts.chdir]

\* the state shared by every initial state
InitCommon ==
    /\ pc = "start"
    /\ exc = None
    /\ HTSLIB_MODE = None
    /\ HTSLIB_LIBRARY_DIR = None
    /\ HTSLIB_INCLUDE_DIR = None
    /\ HTSLIB_CONFIGURE_OPTIONS = None
    /\ HTSLIB_SOURCE = None
    /\ cwd = StartDir
    /\ save_dir = <<>>
    /\ tmp_vars = <<>>
    /\ on_rtd = FALSE
    /\ env_options = None
    /\ options = <<>>
    /\ tried = <<>>
    /\ htslib_configure_options = None
    /\ config_h = None
    /\ config_py = None
    /\ htslib_make_options = <<>>
    /\ external_htslib_libraries = <<>>
    /\ htslib_objects = <<>>
    /\ separate_htslib_objects = <<>>
    /\ htslib_library_dirs = <<>>
    /\ htslib_include_dirs = <<>>
    /\ modules = <<>>
    /\ next_ext = 0
    /\ built = <<>>
    /\ conflicts = {}
    /\ log = {}
    /\ entry_environ = environ
    /\ entry_cwd = cwd
    /\ counts = [chdir |-> 0, configure |-> 0, make |-> 0, check |-> 0]
    /\ config_vars = <<>>
    /\ defined_symbols = <<>>

\* every setting of the link mode, the htslib tree and --force
InitModes ==
    /\ \E m \in ModeValues, l \in LibraryDirValues, i \in IncludeDirValues :
          environ = environment(m, l, i, None, None, <<>>)
    /\ sysconf = SysconfigFull
    /\ files \in FilesValues
    /\ force \in BOOLEAN
    /\ IS_DARWIN = FALSE
    /\ nm_out \in NmFew

\* every setting of the configure options and the compiler variables
InitConfigure ==
    /\ \E o \in ConfigureOptionValues, r \in ReadTheDocsValues,
          c \in CompilerEnvirons :
          environ = environment(None, None, None, o, r, c)
    /\ sysconf \in SysconfigValues
    /\ files = FilesAll
    /\ force = FALSE
    /\ IS_DARWIN = FALSE
    /\ nm_out \in NmFew

\* every nm output, for each link mode
InitSymbols ==
    /\ \E m \in {None, "separate", "external"}, l \in {None, "/opt/hts/lib"} :
          environ = environment(m, l, "/opt/hts/include", None, None, <<>>)
    /\ sysconf = SysconfigFull
    /\ files = FilesAll
    /\ force = FALSE
    /\ IS_DARWIN \in BOOLEAN
    /\ nm_out \in NmValues

Init == (InitModes \/ InitConfigure \/ InitSymbols) /\ InitCommon

-----------------------------------------------------------------------------
(* Module level of setup.py, lines 403-543 *)

Embedded == {"shared", "separate"}

\* the run ends with an uncaught exception
Raise(e) == pc' = "raised" /\ exc' = e

\* os.environ.get(var, default)
environ_get(var, default) ==
    IF var \in DOMAIN environ THEN environ[var] ELSE default

\* lines 403-406: os.environ.get for the HTSLIB_* variables
ReadEnvironment ==
    /\ pc = "start"
    /\ HTSLIB_MODE' = environ_get("HTSLIB_MODE", "shared")
    /\ HTSLIB_LIBRARY_DIR' = environ_get("HTSLIB_LIBRARY_DIR", None)
    /\ HTSLIB_INCLUDE_DIR' = environ_get("HTSLIB_INCLUDE_DIR", None)
    /\ HTSLIB_CONFIGURE_OPTIONS' = environ_get("HTSLIB_CONFIGURE_OPTIONS", None)
    /\ pc' = "line444"
    /\ UNCHANGED <<config_vars, defined_symbols,
                   exc, HTSLIB_SOURCE, environ, sysconf, cwd, save_dir,
                   tmp_vars, on_rtd, env_options, options, tried,
                   htslib_configure_options, files, config_h, config_py,
                   htslib_make_options, external_htslib_libraries,
                   htslib_objects, separate_htslib_objects,
                   htslib_library_dirs, htslib_include_dirs, modules, force,
                   IS_DARWIN, next_ext, built, nm_out, conflicts, log, entry_environ,
                   entry_cwd, counts>>

\* line 444: if HTSLIB_MODE in ['shared', 'separate']
Line444 ==
    /\ pc = "line444"
    /\ pc' = IF HTSLIB_MODE \in Embedded THEN "configure_library"
             ELSE "line478"
    /\ UNCHANGED <<config_vars, defined_symbols,
                   exc, HTSLIB_MODE, HTSLIB_LIBRARY_DIR, HTSLIB_INCLUDE_DIR,
                   HTSLIB_CONFIGURE_OPTIONS, HTSLIB_SOURCE, environ, sysconf,
                   cwd, save_dir, tmp_vars, on_rtd, env_options, options,
                   tried, htslib_configure_options, files, config_h,
                   config_py, htslib_make_options, external_htslib_libraries,
                   htslib_objects, separate_htslib_objects,
                   htslib_library_dirs, htslib_include_dirs, modules, force,
                   IS_DARWIN, next_ext, built, nm_out, conflicts, log, entry_environ,
                   entry_cwd, counts>>

\* the options configure_library is called with at line 449-453
FallbackOptions == <<"--enable-libcurl", "--disable-libcurl">>

\* lines 200-203: the option tried before the fallback list
first_option(user_option, rtd) == IF rtd THEN "--disable-bz2" ELSE user_option

\* the fallback list tried before the option of the user
configure_order_fallback_first(env_opts, opts) ==
    opts \o (IF env_opts # None THEN <<env_opts>> ELSE <<>>)

\* lines 209-215: the options in the order run_configure gets them
configure_order(env_opts, opts) ==
    (IF env_opts # None THEN <<env_opts>> ELSE <<>>) \o opts

\* lines 198-208: configure_library up to the entry of the with block
configure_library_begin ==
    /\ pc = "configure_library"
    /\ LET rtd == environ_get("READTHEDOCS", None) = "True" IN
          LET e == first_option(HTSLIB_CONFIGURE_OPTIONS, rtd)
              d == changedir_enter(Dir, "htslib")
              c == set_compiler_envvars_enter(environ)
          IN  /\ on_rtd' = rtd
              /\ env_options' = e
              /\ IF "htslib/configure" \notin files
                 THEN /\ Raise("ValueError: configure script does not exist")
                      /\ UNCHANGED <<cwd, save_dir, environ, tmp_vars,
                                     options, counts, entry_environ,
                                     entry_cwd>>
                 ELSE /\ pc' = "configuring"
                      /\ entry_cwd' = cwd
                      /\ entry_environ' = environ
                      /\ cwd' = d.cwd
                      /\ save_dir' = d.save_dir
                      /\ counts' = [counts EXCEPT !.chdir = d.chdirs]
                      /\ environ' = c.environ
                      /\ tmp_vars' = c.tmp_vars
                      /\ options' = configure_order(e, FallbackOptions)
                      /\ exc' = exc
    /\ UNCHANGED <<config_vars, defined_symbols,
                   HTSLIB_MODE, HTSLIB_LIBRARY_DIR, HTSLIB_INCLUDE_DIR,
                   HTSLIB_CONFIGURE_OPTIONS, HTSLIB_SOURCE, sysconf, tried,
                   htslib_configure_options, files, config_h, config_py,
                   htslib_make_options, external_htslib_libraries,
                   htslib_objects, separate_htslib_objects,
                   htslib_library_dirs, htslib_include_dirs, modules, force,
                   IS_DARWIN, next_ext, built, nm_out, conflicts, log>>

\* the with block of line 208 is left from inside run_configure's caller:
\* both context managers run their finally clause, set_compiler_envvars
\* (the inner one) first
leave_configure_block(how) ==
    LET d == changedir_exit(Dir, how)
    IN  /\ environ' = set_compiler_envvars_exit(environ, tmp_vars, how)
        /\ tmp_vars' = <<>>
        /\ cwd' = d.cwd
        /\ save_dir' = d.save_dir
        /\ counts' = [counts EXCEPT !.chdir = d.chdirs, !.configure = @ + 1]

\* run_configure (lines 61-72) for the next option of lines 209-215:
\* "ok" is exit status 0, "fail" is a non-zero status or an OSError of
\* subprocess.call, "raise" is an exception that run_configure does not
\* catch (sys.stdout.flush() of line 62 is outside the try)
run_configure ==
    /\ pc = "configuring"
    /\ options # <<>>
    /\ \E outcome \in {"ok", "fail", "raise"} :
       /\ tried' = Append(tried, [option |-> Head(options),
                                  outcome |-> outcome])
       /\ CASE outcome = "ok" ->
                 /\ htslib_configure_options' = Head(options)
                 /\ options' = <<>>
                 /\ config_h' = "configure"
                 /\ leave_configure_block("return")
                 /\ pc' = "line455"
                 /\ exc' = exc
            [] outcome = "fail" ->
                 /\ options' = Tail(options)
                 /\ counts' = [counts EXCEPT !.configure = @ + 1]
                 /\ UNCHANGED <<pc, exc, htslib_configure_options, config_h,
                                environ, tmp_vars, cwd, save_dir>>
            [] outcome = "raise" ->
                 /\ options' = <<>>
                 /\ leave_configure_block("raise")
                 /\ Raise("OSError: sys.stdout.flush")
                 /\ UNCHANGED <<htslib_configure_options, config_h>>
    /\ UNCHANGED <<config_vars, defined_symbols,
                   HTSLIB_MODE, HTSLIB_LIBRARY_DIR, HTSLIB_INCLUDE_DIR,
                   HTSLIB_CONFIGURE_OPTIONS, HTSLIB_SOURCE, sysconf, on_rtd,
                   env_options, files, config_py, htslib_make_options,
                   external_htslib_libraries, htslib_objects,
                   separate_htslib_objects, htslib_library_dirs,
                   htslib_include_dirs, modules, force, IS_DARWIN,
                   next_ext, built,
                   nm_out, conflicts, log, entry_environ, entry_cwd>>

\* line 217: no option was accepted, return None
configure_library_end ==
    /\ pc = "configuring"
    /\ options = <<>>
    /\ htslib_configure_options' = None
    /\ tried' = tried
    /\ LET d == changedir_exit(Dir, "end")
       IN  /\ environ' = set_compiler_envvars_exit(environ, tmp_vars, "end")
           /\ tmp_vars' = <<>>
           /\ cwd' = d.cwd
           /\ save_dir' = d.save_dir
           /\ counts' = [counts EXCEPT !.chdir = d.chdirs]
    /\ pc' = "line455"
    /\ UNCHANGED <<config_vars, defined_symbols,
                   exc, HTSLIB_MODE, HTSLIB_LIBRARY_DIR, HTSLIB_INCLUDE_DIR,
                   HTSLIB_CONFIGURE_OPTIONS, HTSLIB_SOURCE, sysconf, on_rtd,
                   env_options, options, files, config_h, config_py,
                   htslib_make_options, external_htslib_libraries,
                   htslib_objects, separate_htslib_objects,
                   htslib_library_dirs, htslib_include_dirs, modules, force,
                   IS_DARWIN, next_ext, built, nm_out, conflicts, log, entry_environ,
                   entry_cwd>>

\* the empty header written whatever configure_library returned
config_header_always_empty(configure_options, header) == "empty"

\* lines 458-465: what htslib/config.h holds after them
config_header(configure_options, header) ==
    IF configure_options = None THEN "empty" ELSE header

\* lines 455-467: after configure_library, up to the entry of changedir
Line455 ==
    /\ pc = "line455"
    /\ HTSLIB_SOURCE' = "builtin"
    /\ config_h' = config_header(htslib_configure_options, config_h)
    /\ LET d == changedir_enter(Dir, "htslib")
       IN  /\ cwd' = d.cwd
           /\ save_dir' = d.save_dir
           /\ counts' = [counts EXCEPT !.chdir = d.chdirs]
    /\ entry_cwd' = cwd
    /\ on_rtd' = FALSE
    /\ env_options' = None
    /\ tried' = <<>>
    /\ pc' = "print_config"
    /\ UNCHANGED <<config_vars, defined_symbols,
                   exc, HTSLIB_MODE, HTSLIB_LIBRARY_DIR, HTSLIB_INCLUDE_DIR,
                   HTSLIB_CONFIGURE_OPTIONS, environ, sysconf, tmp_vars,
                   options, htslib_configure_options, files, config_py,
                   htslib_make_options, external_htslib_libraries,
                   htslib_objects, separate_htslib_objects,
                   htslib_library_dirs, htslib_include_dirs, modules, force,
                   IS_DARWIN, next_ext, built, nm_out, conflicts, log, entry_environ>>

\* lines 473-476: ['z'] extended by the names in LIBS
libraries_from(make_options) ==
    <<"z">> \o
    (IF "LIBS" \in DOMAIN make_options
     THEN LET words == split(make_options["LIBS"], " ")
              kept == SelectSeq(words, LAMBDA x : x # "")
          IN  Map(sub_dash_l, kept)
     ELSE <<>>)

\* lines 467-476: run_make_print_config inside changedir("htslib")
run_make_print_config ==
    /\ pc = "print_config"
    /\ \/ /\ \E out \in MakePrintConfigValues :
                /\ htslib_make_options' = out
                /\ external_htslib_libraries' = libraries_from(out)
          /\ LET d == changedir_exit(Dir, "end")
             IN  /\ cwd' = d.cwd
                 /\ save_dir' = d.save_dir
                 /\ counts' = [counts EXCEPT !.chdir = d.chdirs]
          /\ pc' = "line478"
          /\ exc' = exc
       \/ /\ LET d == changedir_exit(Dir, "raise")
             IN  /\ cwd' = d.cwd
                 /\ save_dir' = d.save_dir
                 /\ counts' = [counts EXCEPT !.chdir = d.chdirs]
          /\ Raise("CalledProcessError")
          /\ UNCHANGED <<htslib_make_options, external_htslib_libraries>>
    /\ UNCHANGED <<config_vars, defined_symbols,
                   HTSLIB_MODE, HTSLIB_LIBRARY_DIR, HTSLIB_INCLUDE_DIR,
                   HTSLIB_CONFIGURE_OPTIONS, HTSLIB_SOURCE, environ, sysconf,
                   tmp_vars, on_rtd, env_options, options, tried,
                   htslib_configure_options, files, config_h, config_py,
                   htslib_objects, separate_htslib_objects,
                   htslib_library_dirs, htslib_include_dirs, modules, force,
                   IS_DARWIN, next_ext, built, nm_out, conflicts, log, entry_environ,
                   entry_cwd>>

\* Python truth value of a string or None
truthy(x) == x # None /\ x # ""

\* link_settings with the archive given to the first module only
link_settings_archive_once(mode, library_dir, include_dir, make_options, libraries) ==
    IF truthy(library_dir)
    THEN [error |-> None,
          htslib_objects |-> <<>>,
          separate_htslib_objects |-> <<>>,
          htslib_library_dirs |-> <<library_dir>>,
          htslib_include_dirs |-> <<include_dir>>,
          external_htslib_libraries |-> <<"z", "hts">>]
    ELSE IF mode = "separate"
    THEN [error |-> None,
          htslib_objects |-> <<"htslib/libhts.a">>,
          separate_htslib_objects |-> <<>>,
          htslib_library_dirs |-> <<>>,
          htslib_include_dirs |-> <<"htslib">>,
          external_htslib_libraries |-> libraries]
    ELSE IF mode = "shared"
    THEN IF "LIBHTS_OBJS" \notin DOMAIN make_options
         THEN [error |-> "KeyError: LIBHTS_OBJS"]
         ELSE [error |-> None,
               htslib_objects |->
                   Map(LAMBDA x : path_join("htslib", x),
                       split(make_options["LIBHTS_OBJS"], " ")),
               separate_htslib_objects |-> <<>>,
               htslib_library_dirs |-> <<".">>,
               htslib_include_dirs |-> <<"htslib">>,
               external_htslib_libraries |-> libraries]
    ELSE [error |-> "ValueError: unknown HTSLIB value"]

\* link_settings without the final else: an unknown mode is taken as separate
link_settings_without_else(mode, library_dir, include_dir, make_options, libraries) ==
    IF truthy(library_dir)
    THEN [error |-> None,
          htslib_objects |-> <<>>,
          separate_htslib_objects |-> <<>>,
          htslib_library_dirs |-> <<library_dir>>,
          htslib_include_dirs |-> <<include_dir>>,
          external_htslib_libraries |-> <<"z", "hts">>]
    ELSE IF mode = "shared"
    THEN IF "LIBHTS_OBJS" \notin DOMAIN make_options
         THEN [error |-> "KeyError: LIBHTS_OBJS"]
         ELSE [error |-> None,
               htslib_objects |->
                   Map(LAMBDA x : path_join("htslib", x),
                       split(make_options["LIBHTS_OBJS"], " ")),
               separate_htslib_objects |-> <<>>,
               htslib_library_dirs |-> <<".">>,
               htslib_include_dirs |-> <<"htslib">>,
               external_htslib_libraries |-> libraries]
    ELSE [error |-> None,
          htslib_objects |-> <<"htslib/libhts.a">>,
          separate_htslib_objects |-> <<"htslib/libhts.a">>,
          htslib_library_dirs |-> <<>>,
          htslib_include_dirs |-> <<"htslib">>,
          external_htslib_libraries |-> libraries]

\* lines 478-508: what the chain of branches assigns, or the exception
link_settings(mode, library_dir, include_dir, make_options, libraries) ==
    IF truthy(library_dir)
    THEN [error |-> None,
          htslib_objects |-> <<>>,
          separate_htslib_objects |-> <<>>,
          htslib_library_dirs |-> <<library_dir>>,
          htslib_include_dirs |-> <<include_dir>>,
          external_htslib_libraries |-> <<"z", "hts">>]
    ELSE IF mode = "separate"
    THEN [error |-> None,
          htslib_objects |-> <<"htslib/libhts.a">>,
          separate_htslib_objects |-> <<"htslib/libhts.a">>,
          htslib_library_dirs |-> <<>>,
          htslib_include_dirs |-> <<"htslib">>,
          external_htslib_libraries |-> libraries]
    ELSE IF mode = "shared"
    THEN IF "LIBHTS_OBJS" \notin DOMAIN make_options
         THEN [error |-> "KeyError: LIBHTS_OBJS"]
         ELSE [error |-> None,
               htslib_objects |->
                   Map(LAMBDA x : path_join("htslib", x),
                       split(make_options["LIBHTS_OBJS"], " ")),
               separate_htslib_objects |-> <<>>,
               htslib_library_dirs |-> <<".">>,
               htslib_include_dirs |-> <<"htslib">>,
               external_htslib_libraries |-> libraries]
    ELSE [error |-> "ValueError: unknown HTSLIB value"]

\* lines 478-508
SelectLinkMode ==
    /\ pc = "line478"
    /\ LET r == link_settings(HTSLIB_MODE, HTSLIB_LIBRARY_DIR,
                              HTSLIB_INCLUDE_DIR, htslib_make_options,
                              external_htslib_libraries)
       IN  IF r.error # None
           THEN /\ Raise(r.error)
                /\ UNCHANGED <<htslib_objects, separate_htslib_objects,
                               htslib_library_dirs, htslib_include_dirs,
                               external_htslib_libraries>>
           ELSE /\ htslib_objects' = r.htslib_objects
                /\ separate_htslib_objects' = r.separate_htslib_objects
                /\ htslib_library_dirs' = r.htslib_library_dirs
                /\ htslib_include_dirs' = r.htslib_include_dirs
                /\ external_htslib_libraries' = r.external_htslib_libraries
                /\ pc' = "line510"
                /\ exc' = exc
    /\ UNCHANGED <<config_vars, defined_symbols,
                   HTSLIB_MODE, HTSLIB_LIBRARY_DIR, HTSLIB_INCLUDE_DIR,
                   HTSLIB_CONFIGURE_OPTIONS, HTSLIB_SOURCE, environ, sysconf,
                   cwd, save_dir, tmp_vars, on_rtd, env_options, options,
                   tried, htslib_configure_options, files, config_h,
                   config_py, htslib_make_options, modules, force, IS_DARWIN, next_ext,
                   built, nm_out, conflicts, log, entry_environ, entry_cwd,
                   counts>>

\* lines 510-543: pysam/config.py is derived from htslib/config.h, then
\* the config headers that do not exist are created empty
WriteConfigPy ==
    /\ pc = "line510"
    /\ config_py' = IF HTSLIB_SOURCE = "builtin" THEN config_h ELSE None
    /\ pc' = "line564"
    /\ UNCHANGED <<config_vars, defined_symbols,
                   exc, config_h, HTSLIB_MODE, HTSLIB_LIBRARY_DIR, HTSLIB_INCLUDE_DIR,
                   HTSLIB_CONFIGURE_OPTIONS, HTSLIB_SOURCE, environ, sysconf,
                   cwd, save_dir, tmp_vars, on_rtd, env_options, options,
                   tried, htslib_configure_options, files,
                   htslib_make_options, external_htslib_libraries,
                   htslib_objects, separate_htslib_objects,
                   htslib_library_dirs, htslib_include_dirs, modules, force,
                   IS_DARWIN, next_ext, built, nm_out, conflicts, log, entry_environ,
                   entry_cwd, counts>>

-----------------------------------------------------------------------------
(* The declared modules, lines 564-685 *)

\* the position of the last "." of p, or 0
last_dot(p) ==
    LET dots == {i \in 1..Len(p) : SubSeq(p, i, i) = "."}
    IN  IF dots = {} THEN 0 ELSE CHOOSE i \in dots : \A j \in dots : j <= i

\* os.path.splitext(p)[0]
splitext_root(p) ==
    IF last_dot(p) <= 1 THEN p ELSE SubSeq(p, 1, last_dot(p) - 1)

\* sysconfig.get_config_var('EXT_SUFFIX'), line 569
suffix == ".abi3.so"

internal_htslib_libraries == <<splitext_root("chtslib" \o suffix)>>

internal_samtools_libraries ==
    <<splitext_root("csamtools" \o suffix), splitext_root("cbcftools" \o suffix)>>

internal_pysamutil_libraries == <<splitext_root("cutils" \o suffix)>>

\* lines 546-561, on a platform other than Windows
extra_compile_args ==
    <<"-Wno-unused", "-Wno-strict-prototypes", "-Wno-sign-compare",
      "-Wno-error=declaration-after-statement">>

\* lines 564-567
define_macros ==
    IF environ_get("CIBUILDWHEEL", "0") = "1"
    THEN <<<<"BUILDING_WHEEL", None>>>>
    ELSE <<>>

\* one dict of the list of line 616, with the common options of line 674
\* and the defaults of Extension for what setup.py leaves out
module(name, prebuild_func, extra_objects, libraries) ==
    [name |-> name,
     prebuild_func |-> prebuild_func,
     extra_objects |-> extra_objects,
     libraries |-> libraries,
     extra_compile_args |-> extra_compile_args,
     define_macros |-> define_macros,
     undef_macros |-> <<>>,
     extra_link_args |-> <<>>,
     library_dirs |-> Map(abspath, <<"pysam">> \o htslib_library_dirs),
     include_dirs |->
         Map(abspath, <<"pysam">> \o htslib_include_dirs \o
                      <<"samtools", "samtools/lz4", "bcftools", ".">>)]

\* the list of line 616 with libcutils declared before the modules whose
\* libraries it names
declared_modules_cutils_first ==
    LET ext == external_htslib_libraries
        libraries_for_pysam_module ==
            ext \o internal_htslib_libraries \o internal_pysamutil_libraries
        consumer(name) ==
            module(name, None, separate_htslib_objects,
                   libraries_for_pysam_module)
    IN  <<module("pysam.libchtslib", "prebuild_libchtslib",
                 htslib_objects, ext),
          module("pysam.libcutils", None, separate_htslib_objects,
                 ext \o internal_htslib_libraries \o
                 internal_samtools_libraries),
          module("pysam.libcsamtools", "prebuild_libcsamtools",
                 separate_htslib_objects, ext \o internal_htslib_libraries),
          module("pysam.libcbcftools", None,
                 separate_htslib_objects, ext \o internal_htslib_libraries),
          consumer("pysam.libcalignmentfile"),
          consumer("pysam.libcsamfile"),
          consumer("pysam.libcalignedsegment"),
          consumer("pysam.libctabix"),
          consumer("pysam.libcfaidx"),
          consumer("pysam.libcbcf"),
          consumer("pysam.libcbgzf"),
          consumer("pysam.libctabixproxies"),
          consumer("pysam.libcvcf")>>

\* lines 582, 616-672
declared_modules ==
    LET ext == external_htslib_libraries
        libraries_for_pysam_module ==
            ext \o internal_htslib_libraries \o internal_pysamutil_libraries
        consumer(name) ==
            module(name, None, separate_htslib_objects,
                   libraries_for_pysam_module)
    IN  <<module("pysam.libchtslib", "prebuild_libchtslib",
                 htslib_objects, ext),
          module("pysam.libcsamtools", "prebuild_libcsamtools",
                 separate_htslib_objects, ext \o internal_htslib_libraries),
          module("pysam.libcbcftools", None,
                 separate_htslib_objects, ext \o internal_htslib_libraries),
          module("pysam.libcutils", None, separate_htslib_objects,
                 ext \o internal_htslib_libraries \o
                 internal_samtools_libraries),
          consumer("pysam.libcalignmentfile"),
          consumer("pysam.libcsamfile"),
          consumer("pysam.libcalignedsegment"),
          consumer("pysam.libctabix"),
          consumer("pysam.libcfaidx"),
          consumer("pysam.libcbcf"),
          consumer("pysam.libcbgzf"),
          consumer("pysam.libctabixproxies"),
          consumer("pysam.libcvcf")>>

\* lines 564-722: the modules are declared and setup() starts build_ext;
\* os.path.abspath(None) of lines 679-680 is a TypeError
DeclareModules ==
    /\ pc = "line564"
    /\ IF None \in Range(htslib_library_dirs \o htslib_include_dirs)
       THEN /\ Raise("TypeError")
            /\ UNCHANGED <<modules, next_ext>>
       ELSE /\ modules' = declared_modules
            /\ next_ext' = 1
            /\ pc' = "build_extension"
            /\ exc' = exc
    /\ UNCHANGED <<config_vars, defined_symbols,
                   HTSLIB_MODE, HTSLIB_LIBRARY_DIR, HTSLIB_INCLUDE_DIR,
                   HTSLIB_CONFIGURE_OPTIONS, HTSLIB_SOURCE, environ, sysconf,
                   cwd, save_dir, tmp_vars, on_rtd, env_options, options,
                   tried, htslib_configure_options, files, config_h,
                   config_py, htslib_make_options, external_htslib_libraries,
                   htslib_objects, separate_htslib_objects,
                   htslib_library_dirs, htslib_include_dirs, force, IS_DARWIN,
                   built, nm_out, conflicts, log, entry_environ, entry_cwd,
                   counts>>

-----------------------------------------------------------------------------
(* build_config_dict and write_configvars_header, lines 117-166 *)

\* line 118-119
env(var) == IF var \in DOMAIN environ THEN <<environ[var]>> ELSE <<>>

\* lines 121-123: sysconfig.get_config_var gives None for a variable that
\* is not set
sc(var) == IF var \in DOMAIN sysconf THEN <<sysconf[var]>> ELSE <<>>

\* line 126
quote(s) == IF is_substring(" ", s) THEN "'" \o s \o "'" ELSE s

\* lines 125-127
optionise(option, valuelist) ==
    [i \in 1..Len(valuelist) |-> quote(option \o valuelist[i])]

\* line 130
appendoptvalue(t) == IF t[2] = None THEN t[1] ELSE t[1] \o "=" \o t[2]

\* lines 129-131
kvtuples(pairlist) ==
    [i \in 1..Len(pairlist) |-> appendoptvalue(pairlist[i])]

\* build_config_dict where a sysconfig value replaces the environment's
build_config_dict_sysconfig_first(ext) ==
    LET first(l) == IF l = <<>> THEN <<>> ELSE <<Head(l)>>
    IN  [CC |-> Head(sc("CC") \o env("CC") \o <<"gcc">>),
         CPPFLAGS |->
             join(env("CPPFLAGS") \o optionise("-I", ext.include_dirs) \o
                  optionise("-D", kvtuples(ext.define_macros)) \o
                  optionise("-U", ext.undef_macros), " "),
         CFLAGS |->
             join(first(sc("CFLAGS") \o env("CFLAGS")) \o sc("CCSHARED") \o
                  ext.extra_compile_args, " "),
         LDFLAGS |->
             join(first(sc("LDFLAGS") \o env("LDFLAGS")) \o
                  optionise("-L", ext.library_dirs) \o
                  ext.extra_link_args, " "),
         LIBS |-> join(optionise("-l", ext.libraries), " ")]

\* lines 117-154
build_config_dict(ext) ==
    [CC |-> Head(env("CC") \o sc("CC") \o <<"gcc">>),
     CPPFLAGS |->
         join(env("CPPFLAGS") \o optionise("-I", ext.include_dirs) \o
              optionise("-D", kvtuples(ext.define_macros)) \o
              optionise("-U", ext.undef_macros), " "),
     CFLAGS |->
         join(sc("CFLAGS") \o env("CFLAGS") \o sc("CCSHARED") \o
              ext.extra_compile_args, " "),
     LDFLAGS |->
         join(sc("LDFLAGS") \o env("LDFLAGS") \o env("CFLAGS") \o
              optionise("-L", ext.library_dirs) \o
              ext.extra_link_args, " "),
     LIBS |-> join(optionise("-l", ext.libraries), " ")]

\* line 166: one line of the header
define(prefix, var, value) ==
    "#define " \o prefix \o "_" \o var \o " \"" \o value \o "\""

\* lines 157-166: the files written so far and the lines of filename
write_configvars_header(filename, ext, prefix) ==
    LET config == build_config_dict(ext)
        unused == IF prefix # "HTS"
                  THEN <<define(prefix, "HTSDIR", "(unused)"),
                         define(prefix, "CURSES_LIB", "(unused)")>>
                  ELSE <<>>
    IN  (filename :>
            (<<define(prefix, "CC", config.CC),
               define(prefix, "CPPFLAGS", config.CPPFLAGS),
               define(prefix, "CFLAGS", config.CFLAGS),
               define(prefix, "LDFLAGS", config.LDFLAGS),
               define(prefix, "LIBS", config.LIBS)>> \o unused))
        @@ config_vars

\* line 324 (--inplace is not given) and self.build_lib
inplace == FALSE
build_lib == "build/lib"

\* lines 326-351: the extension as the prebuild hook and the compiler get it
prepared(ext) ==
    LET library_path == path_join("@rpath", SubSeq(ext.name, Len("pysam.") + 1, Len(ext.name)) \o suffix)
    IN  [ext EXCEPT
            !.library_dirs =
                IF inplace THEN @ ELSE Append(@, path_join(build_lib, "pysam")),
            !.extra_link_args =
                IF IS_DARWIN
                THEN @ \o <<"-dynamiclib", "-rpath", "@loader_path",
                            "-Wl,-headerpad_max_install_names",
                            "-Wl,-install_name," \o library_path, "-Wl,-x">>
                ELSE @ \o <<"-Wl,-rpath,$ORIGIN">>]

\* lines 612-613
prebuild_libcsamtools(ext) ==
    /\ config_vars' =
           write_configvars_header("samtools/samtools_config_vars.h", ext,
                                   "SAMTOOLS")
    /\ log' = log \cup {"creating samtools/samtools_config_vars.h"}

-----------------------------------------------------------------------------
(* build_ext: cy_build_ext, lines 258-356, and the hooks of lines 595-613 *)

\* a compiler error that is reported and followed by the next extension
compile_and_link_keep_going ==
    \/ /\ built' = Append(built, modules[next_ext].name)
       /\ next_ext' = next_ext + 1
       /\ pc' = IF next_ext = Len(modules) THEN "line300" ELSE "build_extension"
       /\ exc' = exc
    \/ /\ exc' = "CompileError"
       /\ next_ext' = next_ext + 1
       /\ pc' = IF next_ext = Len(modules) THEN "line300" ELSE "build_extension"
       /\ built' = built

\* the compiler and linker of super().build_extension(ext), line 356
compile_and_link ==
    \/ /\ built' = Append(built, modules[next_ext].name)
       /\ next_ext' = next_ext + 1
       /\ pc' = IF next_ext = Len(modules) THEN "line300" ELSE "build_extension"
       /\ exc' = exc
    \/ /\ Raise("CompileError")
       /\ UNCHANGED <<built, next_ext>>

\* line 600: does prebuild_libchtslib run make?
needs_make(forced, existing) == forced \/ "htslib/libhts.a" \notin existing

\* lines 321-356: build_extension for the next module, up to the point
\* where its prebuild hook enters changedir("htslib") to run make
build_extension ==
    /\ pc = "build_extension"
    /\ LET ext == prepared(modules[next_ext])
       IN  /\ modules' = [modules EXCEPT ![next_ext] = ext]
           /\ CASE ext.prebuild_func = "prebuild_libchtslib"
                       /\ HTSLIB_MODE \in Embedded ->
                  \* lines 598-609
                  /\ config_vars' =
                         write_configvars_header("htslib/config_vars.h", ext,
                                                 "HTS")
                  /\ files' = files \cup {"htslib/config_vars.h"}
                  /\ IF needs_make(force, files)
                     THEN /\ log' = log \cup {"creating htslib/config_vars.h",
                                             "building 'libhts.a'"}
                          /\ LET d == changedir_enter(Dir, "htslib")
                             IN  /\ cwd' = d.cwd
                                 /\ save_dir' = d.save_dir
                                 /\ counts' = [counts EXCEPT !.chdir = d.chdirs]
                          /\ entry_cwd' = cwd
                          /\ pc' = "run_make"
                          /\ UNCHANGED <<exc, built, next_ext>>
                     ELSE /\ log' = log \cup {"creating htslib/config_vars.h",
                                             "skipping 'libhts.a' (already built)"}
                          /\ compile_and_link
                          /\ UNCHANGED <<cwd, save_dir, counts, entry_cwd>>
                [] ext.prebuild_func = "prebuild_libchtslib"
                       /\ HTSLIB_MODE \notin Embedded ->
                  \* line 596
                  /\ compile_and_link
                  /\ UNCHANGED <<log, files, cwd, save_dir, counts, entry_cwd,
                                 config_vars>>
                [] ext.prebuild_func = "prebuild_libcsamtools" ->
                  /\ prebuild_libcsamtools(ext)
                  /\ compile_and_link
                  /\ UNCHANGED <<files, cwd, save_dir, counts, entry_cwd>>
                [] ext.prebuild_func = None ->
                  /\ compile_and_link
                  /\ UNCHANGED <<log, files, cwd, save_dir, counts, entry_cwd,
                                 config_vars>>
    /\ UNCHANGED <<defined_symbols,
                   HTSLIB_MODE, HTSLIB_LIBRARY_DIR, HTSLIB_INCLUDE_DIR,
                   HTSLIB_CONFIGURE_OPTIONS, HTSLIB_SOURCE, environ, sysconf,
                   tmp_vars, on_rtd, env_options, options, tried,
                   htslib_configure_options, config_h, config_py,
                   htslib_make_options, external_htslib_libraries,
                   htslib_objects, separate_htslib_objects,
                   htslib_library_dirs, htslib_include_dirs, force,
                   IS_DARWIN, nm_out, conflicts, entry_environ>>

\* lines 602-607 and 75-77: make lib-static inside changedir("htslib");
\* subprocess.check_call raises for a non-zero exit status
run_make ==
    /\ pc = "run_make"
    /\ \/ /\ files' = files \cup {"htslib/libhts.a"}
                           \cup Range(Map(LAMBDA x : path_join("htslib", x),
                                    IF "LIBHTS_OBJS" \in DOMAIN htslib_make_options
                                    THEN split(htslib_make_options["LIBHTS_OBJS"], " ")
                                    ELSE <<>>))
          /\ LET d == changedir_exit(Dir, "end")
             IN  /\ cwd' = d.cwd
                 /\ save_dir' = d.save_dir
                 /\ counts' = [counts EXCEPT !.chdir = d.chdirs, !.make = @ + 1]
          /\ pc' = "compile"
          /\ exc' = exc
       \/ /\ LET d == changedir_exit(Dir, "raise")
             IN  /\ cwd' = d.cwd
                 /\ save_dir' = d.save_dir
                 /\ counts' = [counts EXCEPT !.chdir = d.chdirs, !.make = @ + 1]
          /\ Raise("CalledProcessError")
          /\ files' = files
    /\ UNCHANGED <<config_vars, defined_symbols,
                   HTSLIB_MODE, HTSLIB_LIBRARY_DIR, HTSLIB_INCLUDE_DIR,
                   HTSLIB_CONFIGURE_OPTIONS, HTSLIB_SOURCE, environ, sysconf,
                   tmp_vars, on_rtd, env_options, options, tried,
                   htslib_configure_options, config_h, config_py,
                   htslib_make_options, external_htslib_libraries,
                   htslib_objects, separate_htslib_objects,
                   htslib_library_dirs, htslib_include_dirs, modules, force,
                   IS_DARWIN, next_ext, built, nm_out, conflicts, log,
                   entry_environ, entry_cwd>>

\* line 356 after a prebuild hook that ran make
compile_extension ==
    /\ pc = "compile"
    /\ compile_and_link
    /\ UNCHANGED <<config_vars, defined_symbols,
                   HTSLIB_MODE, HTSLIB_LIBRARY_DIR, HTSLIB_INCLUDE_DIR,
                   HTSLIB_CONFIGURE_OPTIONS, HTSLIB_SOURCE, environ, sysconf,
                   cwd, save_dir, tmp_vars, on_rtd, env_options, options,
                   tried, htslib_configure_options, files, config_h,
                   config_py, htslib_make_options, external_htslib_libraries,
                   htslib_objects, separate_htslib_objects,
                   htslib_library_dirs, htslib_include_dirs, modules, force,
                   IS_DARWIN, nm_out, conflicts, log, entry_environ,
                   entry_cwd, counts>>

-----------------------------------------------------------------------------
(* The symbol conflict check, lines 93-110, 259-276 and 300-306 *)

\* line_symbols that keeps the leading underscore on macOS
line_symbols_keep_underscore(line, darwin) ==
    LET words == SelectSeq(split(line, " "), LAMBDA w : w # "")
        sym == words[1]
        symtype == words[2]
    IN  IF is_substring(symtype, "UFNWw") THEN {}
        ELSE IF darwin
             THEN {sym}
             ELSE IF is_substring(SubSeq(sym, 1, 1), "_$.@") THEN {}
                  ELSE {sym}

\* lines 98-105: the symbols one line of the listing adds
line_symbols(line, darwin) ==
    LET words == SelectSeq(split(line, " "), LAMBDA w : w # "")
        sym == words[1]
        symtype == words[2]
    IN  IF is_substring(symtype, "UFNWw") THEN {}
        ELSE IF darwin
             THEN {IF SubSeq(sym, 1, 1) = "_" THEN SubSeq(sym, 2, Len(sym))
                   ELSE sym}
             ELSE IF is_substring(SubSeq(sym, 1, 1), "_$.@") THEN {}
                  ELSE {sym}

\* lines 96-110: run_nm_defined_symbols for a listing that nm printed
run_nm_defined_symbols(lines, darwin) ==
    UNION {line_symbols(lines[i], darwin) : i \in 1..Len(lines)}
    \ {"__pyx_CommonTypesMetaclass_get_module"}

RECURSIVE lstrip(_, _)
\* s.lstrip(chars)
lstrip(s, chars) ==
    IF s # "" /\ is_substring(SubSeq(s, 1, 1), chars)
    THEN lstrip(SubSeq(s, 2, Len(s)), chars)
    ELSE s

RECURSIVE collect_symbols(_, _, _)
\* lines 265-268: the dict symbols after the extensions from index i on
collect_symbols(symbols, i, darwin) ==
    IF i > Len(modules) THEN symbols
    ELSE LET syms == run_nm_defined_symbols(nm_out[i].lines, darwin)
             name == lstrip(modules[i].name, "pysam.")
         IN  collect_symbols(
                 [sym \in DOMAIN symbols \cup syms |->
                     IF sym \in syms
                     THEN (IF sym \in DOMAIN symbols THEN symbols[sym]
                           ELSE <<>>) \o <<name>>
                     ELSE symbols[sym]],
                 i + 1, darwin)

\* lines 270-274: the entries logged as conflicting symbols
conflicting(symbols) ==
    {[sym |-> sym, objs |-> symbols[sym]] :
        sym \in {x \in DOMAIN symbols : Len(symbols[x]) > 1}}

\* lines 259-276: the exception of the first nm that fails, a LinkError
\* with the logged entries, or None with no entry
check_ext_symbol_conflicts ==
    LET failed == {i \in 1..Len(modules) : nm_out[i].status # "ok"}
        first == CHOOSE i \in failed : \A j \in failed : i <= j
        found == conflicting(collect_symbols(<<>>, 1, IS_DARWIN))
    IN  IF failed # {}
        THEN [error |-> nm_out[first].status, entries |-> {}]
        ELSE IF Cardinality(found) > 0
        THEN [error |-> "LinkError", entries |-> found]
        ELSE [error |-> None, entries |-> {}]

\* lines 266-267: what the calls of run_nm_defined_symbols returned, up to
\* the first nm that fails
returned_symbols ==
    LET failed == {i \in 1..Len(modules) : nm_out[i].status # "ok"}
        last == IF failed = {} THEN Len(modules)
                ELSE (CHOOSE i \in failed : \A j \in failed : i <= j) - 1
    IN  [i \in 1..last |-> run_nm_defined_symbols(nm_out[i].lines, IS_DARWIN)]

\* line 301: is the check run?
check_wanted(mode) == mode # "separate"

\* run() without the except clause of line 305
caught_oserror_only(e) == e = "OSError"

\* lines 303-306: the exceptions of the check that run() catches
caught(e) == e \in {"OSError", "CalledProcessError"}

\* lines 304, 306: the warning logged for a caught exception
warning(e) ==
    IF e = "OSError"
    THEN "skipping symbol collision check (invoking nm failed: OSError)"
    ELSE "skipping symbol collision check (invoking nm failed)"

\* lines 300-306: after super().run() has built every extension
CheckSymbols ==
    /\ pc = "line300"
    /\ IF check_wanted(HTSLIB_MODE)
       THEN LET r == check_ext_symbol_conflicts
            IN  /\ counts' = [counts EXCEPT !.check = @ + 1]
                /\ defined_symbols' = returned_symbols
                /\ conflicts' = r.entries
                /\ IF r.error = None
                   THEN /\ pc' = "done"
                        /\ UNCHANGED <<exc, log>>
                   ELSE IF caught(r.error)
                   THEN /\ log' = log \cup {warning(r.error)}
                        /\ pc' = "done"
                        /\ exc' = exc
                   ELSE /\ Raise(r.error)
                        /\ log' = log
       ELSE /\ pc' = "done"
            /\ UNCHANGED <<exc, counts, conflicts, log, defined_symbols>>
    /\ UNCHANGED <<config_vars,
                   HTSLIB_MODE, HTSLIB_LIBRARY_DIR, HTSLIB_INCLUDE_DIR,
                   HTSLIB_CONFIGURE_OPTIONS, HTSLIB_SOURCE, environ, sysconf,
                   cwd, save_dir, tmp_vars, on_rtd, env_options, options,
                   tried, htslib_configure_options, files, config_h,
                   config_py, htslib_make_options, external_htslib_libraries,
                   htslib_objects, separate_htslib_objects,
                   htslib_library_dirs, htslib_include_dirs, modules, force,
                   IS_DARWIN, next_ext, built, nm_out, entry_environ,
                   entry_cwd>>

-----------------------------------------------------------------------------

Next ==
    \/ ReadEnvironment
    \/ Line444
    \/ configure_library_begin
    \/ run_configure
    \/ configure_library_end
    \/ Line455
    \/ run_make_print_config
    \/ SelectLinkMode
    \/ WriteConfigPy
    \/ DeclareModules
    \/ build_extension
    \/ run_make
    \/ compile_extension
    \/ CheckSymbols

Spec == Init /\ [][Next]_vars

-----------------------------------------------------------------------------
(* write_configvars_header for any environment, sysconfig and extension *)

\* the variables build_config_dict looks up in os.environ
FlagEnvirons ==
    {[v \in D |-> CompilerValue(v)] :
        D \in SUBSET {"CC", "CPPFLAGS", "CFLAGS", "LDFLAGS"}}

\* the variables sysconfig may define
FlagSysconfigs ==
    {[v \in D |-> SysconfigValue(v)] :
        D \in SUBSET {"CC", "CPPFLAGS", "CFLAGS", "LDFLAGS", "CCSHARED"}}

\* extensions as a prebuild hook may get them
ExtValues ==
    {[name |-> "pysam.libcsamtools",
      prebuild_func |-> "prebuild_libcsamtools",
      extra_objects |-> <<>>,
      libraries |-> <<"z", "chtslib.abi3">>,
      extra_compile_args |-> a,
      define_macros |-> m,
      undef_macros |-> u,
      extra_link_args |-> l,
      library_dirs |-> d,
      include_dirs |-> i] :
        a \in {<<>>, <<"-Wno-unused">>},
        m \in {<<>>, <<<<"BUILDING_WHEEL", None>>, <<"NDEBUG", "1">>>>},
        u \in {<<>>, <<"DEBUG">>},
        l \in {<<>>, <<"-Wl,-rpath,$ORIGIN">>},
        d \in {<<>>, <<"/src/pysam/pysam">>},
        i \in {<<>>, <<"/src/my pysam/htslib">>}}

\* build_extension is about to call the prebuild hook of an extension
InitConfigDict ==
    /\ pc = "prebuild"
    /\ environ \in FlagEnvirons
    /\ sysconf \in FlagSysconfigs
    /\ modules \in {<<ext>> : ext \in ExtValues}
    /\ next_ext = 1
    /\ exc = None
    /\ HTSLIB_MODE = "shared"
    /\ HTSLIB_LIBRARY_DIR = None
    /\ HTSLIB_INCLUDE_DIR = None
    /\ HTSLIB_CONFIGURE_OPTIONS = None
    /\ HTSLIB_SOURCE = "builtin"
    /\ cwd = StartDir
    /\ save_dir = <<>>
    /\ tmp_vars = <<>>
    /\ on_rtd = FALSE
    /\ env_options = None
    /\ options = <<>>
    /\ tried = <<>>
    /\ htslib_configure_options = None
    /\ files = FilesAll
    /\ config_h = None
    /\ config_py = None
    /\ htslib_make_options = <<>>
    /\ external_htslib_libraries = <<"z">>
    /\ htslib_objects = <<>>
    /\ separate_htslib_objects = <<>>
    /\ htslib_library_dirs = <<>>
    /\ htslib_include_dirs = <<>>
    /\ force = FALSE
    /\ IS_DARWIN = FALSE
    /\ built = <<>>
    /\ nm_out = <<>>
    /\ conflicts = {}
    /\ log = {}
    /\ entry_environ = environ
    /\ entry_cwd = cwd
    /\ counts = [chdir |-> 0, configure |-> 0, make |-> 0, check |-> 0]
    /\ config_vars = <<>>
    /\ defined_symbols = <<>>

\* lines 353-354: ext._prebuild_func(ext, self.force)
call_prebuild_func ==
    /\ pc = "prebuild"
    /\ prebuild_libcsamtools(modules[next_ext])
    /\ pc' = "prebuilt"
    /\ UNCHANGED <<exc, HTSLIB_MODE, HTSLIB_LIBRARY_DIR, HTSLIB_INCLUDE_DIR,
                   HTSLIB_CONFIGURE_OPTIONS, HTSLIB_SOURCE, environ, sysconf,
                   cwd, save_dir, tmp_vars, on_rtd, env_options, options,
                   tried, htslib_configure_options, files, config_h,
                   config_py, htslib_make_options, external_htslib_libraries,
                   htslib_objects, separate_htslib_objects,
                   htslib_library_dirs, htslib_include_dirs, modules, force,
                   IS_DARWIN, next_ext, built, nm_out, conflicts,
                   entry_environ, entry_cwd, counts, defined_symbols>>

NextConfigDict == call_prebuild_func

SpecConfigDict == InitConfigDict /\ [][NextConfigDict]_vars

-----------------------------------------------------------------------------
(* run_nm_defined_symbols for any listing *)

\* longest listing of nm
MaxLines == 2

\* names as nm prints them
NmNames ==
    {"foo", "_foo", "__foo", "$x", ".L1", "@a",
     "___pyx_CommonTypesMetaclass_get_module"}

\* symbol types of nm -P: text, undefined, weak, weak object, file, debug
NmTypes == {"T", "U", "W", "w", "V", "F", "N"}

\* a line of nm -g -P: name, type, and value and size unless undefined
NmLines ==
    {n \o " " \o t \o (IF t = "U" THEN "" ELSE " 10 4") :
        n \in NmNames, t \in NmTypes}

NmListings == UNION {[1..n -> NmLines] : n \in 0..MaxLines}

\* check_ext_symbol_conflicts is about to call run_nm_defined_symbols
InitNm ==
    /\ pc = "nm"
    /\ nm_out \in {<<nm_ok(l)>> : l \in NmListings}
    /\ IS_DARWIN \in BOOLEAN
    /\ environ = <<>>
    /\ sysconf = SysconfigFull
    /\ modules = <<>>
    /\ next_ext = 0
    /\ exc = None
    /\ HTSLIB_MODE = "shared"
    /\ HTSLIB_LIBRARY_DIR = None
    /\ HTSLIB_INCLUDE_DIR = None
    /\ HTSLIB_CONFIGURE_OPTIONS = None
    /\ HTSLIB_SOURCE = "builtin"
    /\ cwd = StartDir
    /\ save_dir = <<>>
    /\ tmp_vars = <<>>
    /\ on_rtd = FALSE
    /\ env_options = None
    /\ options = <<>>
    /\ tried = <<>>
    /\ htslib_configure_options = None
    /\ files = FilesAll
    /\ config_h = None
    /\ config_py = None
    /\ htslib_make_options = <<>>
    /\ external_htslib_libraries = <<"z">>
    /\ htslib_objects = <<>>
    /\ separate_htslib_objects = <<>>
    /\ htslib_library_dirs = <<>>
    /\ htslib_include_dirs = <<>>
    /\ force = FALSE
    /\ built = <<>>
    /\ conflicts = {}
    /\ log = {}
    /\ entry_environ = environ
    /\ entry_cwd = cwd
    /\ counts = [chdir |-> 0, configure |-> 0, make |-> 0, check |-> 0]
    /\ config_vars = <<>>
    /\ defined_symbols = <<>>

\* line 266: run_nm_defined_symbols(...) for one object file
call_run_nm_defined_symbols ==
    /\ pc = "nm"
    /\ defined_symbols' =
           Append(defined_symbols,
                  run_nm_defined_symbols(nm_out[1].lines, IS_DARWIN))
    /\ pc' = "nm_done"
    /\ UNCHANGED <<exc, HTSLIB_MODE, HTSLIB_LIBRARY_DIR, HTSLIB_INCLUDE_DIR,
                   HTSLIB_CONFIGURE_OPTIONS, HTSLIB_SOURCE, environ, sysconf,
                   cwd, save_dir, tmp_vars, on_rtd, env_options, options,
                   tried, htslib_configure_options, files, config_h,
                   config_py, htslib_make_options, external_htslib_libraries,
                   htslib_objects, separate_htslib_objects,
                   htslib_library_dirs, htslib_include_dirs, modules, force,
                   IS_DARWIN, next_ext, built, nm_out, conflicts, log,
                   entry_environ, entry_cwd, counts, config_vars>>

NextNm == call_run_nm_defined_symbols

SpecNm == InitNm /\ [][NextNm]_vars

-----------------------------------------------------------------------------
(* Vocabulary of the properties *)

\* the run is over
Ended == pc \in {"done", "raised"}

\* the with block of configure_library, of line 467 or of prebuild_libchtslib
InBlock == pc \in {"configuring", "print_config", "run_make"}

\* the link mode of section 4.1 of the specification: external directories
\* come first, then the mode selector
LinkMode ==
    IF truthy(environ_get("HTSLIB_LIBRARY_DIR", None)) THEN "External"
    ELSE IF environ_get("HTSLIB_MODE", "shared") = "separate"
         THEN "Embedded-Separate"
    ELSE IF environ_get("HTSLIB_MODE", "shared") = "shared"
         THEN "Embedded-Shared"
    ELSE "none"

\* the object files named by the LIBHTS_OBJS that make print-config reported
ReportedObjects ==
    {[i \in 1..n |-> "htslib/" \o ObjNames[i]] :
        n \in {m \in 1..Len(ObjNames) :
                 /\ "LIBHTS_OBJS" \in DOMAIN htslib_make_options
                 /\ htslib_make_options["LIBHTS_OBJS"] =
                        join(SubSeq(ObjNames, 1, m), " ")}}

ExtraObjects(i) == modules[i].extra_objects

-----------------------------------------------------------------------------
(* C1 *)

\* C1: once the modules are declared, one link mode is selected and the
\* extra objects of the modules are those of the mode: htslib/libhts.a for
\* every module in Embedded-Separate, the object files that make reported
\* (and no archive) for the first module and nothing for the others in
\* Embedded-Shared, nothing for any module in External.
C1_ArtifactsMatchMode ==
    modules # <<>> =>
        /\ Len(modules) = Len(ModuleNames)
        /\ LinkMode \in {"External", "Embedded-Separate", "Embedded-Shared"}
        /\ LinkMode = "External" =>
               \A i \in 1..Len(modules) : ExtraObjects(i) = <<>>
        /\ LinkMode = "Embedded-Separate" =>
               \A i \in 1..Len(modules) : ExtraObjects(i) = <<"htslib/libhts.a">>
        /\ LinkMode = "Embedded-Shared" =>
               /\ ExtraObjects(1) \in ReportedObjects
               /\ ExtraObjects(1) # <<>>
               /\ "htslib/libhts.a" \notin Range(ExtraObjects(1))
               /\ \A i \in 2..Len(modules) : ExtraObjects(i) = <<>>

C1_Witness ==
    /\ modules # <<>>
    /\ LinkMode = "Embedded-Shared"
    /\ Len(ExtraObjects(1)) = MaxObjs

-----------------------------------------------------------------------------
(* C2 *)

\* C2: when the external library and include directories are both given,
\* configure is never run for the vendored library, make is never run, and
\* the directories are the library and include search directories.
C2_ExternalNeverBuilds ==
    (/\ truthy(environ_get("HTSLIB_LIBRARY_DIR", None))
     /\ truthy(environ_get("HTSLIB_INCLUDE_DIR", None))) =>
        /\ pc \notin {"configuring", "run_make"}
        /\ counts.configure = 0
        /\ counts.make = 0
        /\ modules # <<>> =>
               /\ LinkMode = "External"
               /\ htslib_library_dirs = <<environ["HTSLIB_LIBRARY_DIR"]>>
               /\ htslib_include_dirs = <<environ["HTSLIB_INCLUDE_DIR"]>>

-----------------------------------------------------------------------------
(* C3 *)

\* the options of the run_configure calls made so far
TriedOptions == [i \in 1..Len(tried) |-> tried[i].option]

IsPrefix(a, b) == Len(a) <= Len(b) /\ a = SubSeq(b, 1, Len(a))

\* configure_library tries first (when it is not None) and then the fallback
\* list in order, stops at the first success and returns that option, and
\* returns None without an exception when every run fails
TriesInOrder(first) ==
    LET order == (IF first # None THEN <<first>> ELSE <<>>) \o
                 <<"--enable-libcurl", "--disable-libcurl">>
    IN  /\ IsPrefix(TriedOptions, order)
        /\ \A i \in 1..(Len(tried) - 1) : tried[i].outcome = "fail"
        /\ pc = "line455" =>
               IF \E i \in 1..Len(tried) : tried[i].outcome = "ok"
               THEN htslib_configure_options = tried[Len(tried)].option
               ELSE /\ htslib_configure_options = None
                    /\ TriedOptions = order
                    /\ exc = None

\* C3 as stated: the option of HTSLIB_CONFIGURE_OPTIONS is tried first
\* whenever it is given.
C3_UserOptionFirst ==
    TriesInOrder(environ_get("HTSLIB_CONFIGURE_OPTIONS", None))

\* C3: the option tried first is --disable-bz2 when READTHEDOCS is True,
\* else the option of HTSLIB_CONFIGURE_OPTIONS when it is given; then the
\* fallback list in order, stopping at the first success; None without an
\* exception when every run fails.
C3_ConfigureFallback ==
    TriesInOrder(IF environ_get("READTHEDOCS", None) = "True"
                 THEN "--disable-bz2"
                 ELSE environ_get("HTSLIB_CONFIGURE_OPTIONS", None))

C3_Witness ==
    /\ pc = "line455"
    /\ "HTSLIB_CONFIGURE_OPTIONS" \in DOMAIN environ
    /\ Len(tried) = 3
    /\ tried[1].option = environ["HTSLIB_CONFIGURE_OPTIONS"]
    /\ tried[3].outcome = "ok"
    /\ htslib_configure_options = "--disable-libcurl"

-----------------------------------------------------------------------------
(* C4 *)

\* C4: outside the block of set_compiler_envvars, CC, CFLAGS and LDFLAGS
\* are set or unset, and valued, as when the block was entered.
C4_EnvironRestored ==
    ~InBlock =>
        \A v \in Range(CompilerVars) :
            /\ v \in DOMAIN environ <=> v \in DOMAIN entry_environ
            /\ v \in DOMAIN environ => environ[v] = entry_environ[v]

-----------------------------------------------------------------------------
(* C5 *)

\* C5: outside a changedir block the working directory is the one that was
\* current when the block was entered, whether the block ended normally, by
\* a return or by an exception.
C5_CwdRestored ==
    /\ ~InBlock => cwd = entry_cwd /\ save_dir = <<>>
    /\ InBlock => save_dir = <<entry_cwd>>

C5_Witness ==
    /\ pc = "raised"
    /\ exc = "CalledProcessError"
    /\ counts.make = 1
    /\ counts.chdir = 6
    /\ cwd = StartDir

-----------------------------------------------------------------------------
(* C6 *)

AllBuilt == Len(built) = Len(ModuleNames)

\* the symbol table of the i-th extension
SymbolTable(i) == run_nm_defined_symbols(nm_out[i].lines, IS_DARWIN)

Owners(sym) == {i \in 1..Len(ModuleNames) : sym \in SymbolTable(i)}

Duplicated ==
    {sym \in UNION {SymbolTable(i) : i \in 1..Len(ModuleNames)} :
        Cardinality(Owners(sym)) >= 2}

RECURSIVE OwnerNames(_)
\* the names, without "pysam.", of the extensions of S in build order
OwnerNames(S) ==
    IF S = {} THEN <<>>
    ELSE LET i == CHOOSE j \in S : \A k \in S : j <= k
         IN  <<SubSeq(ModuleNames[i], 7, Len(ModuleNames[i]))>> \o
             OwnerNames(S \ {i})

NmSucceeds == \A i \in 1..Len(ModuleNames) : nm_out[i].status = "ok"

\* every extension is built, nm lists each of them, and the run is over:
\* a duplicated symbol gives a LinkError and one entry per such symbol that
\* lists its owners, no duplicated symbol gives a run without error
ConflictsReported ==
    IF Duplicated # {}
    THEN /\ pc = "raised"
         /\ exc = "LinkError"
         /\ conflicts = {[sym |-> sym, objs |-> OwnerNames(Owners(sym))] :
                            sym \in Duplicated}
    ELSE /\ pc = "done"
         /\ exc = None
         /\ conflicts = {}

\* C6: in a link mode other than Embedded-Separate, symbols defined in two
\* or more extensions are each reported once with all their owners and the
\* run fails with a LinkError; without such a symbol the run does not fail.
C6_ConflictsFailTheRun ==
    (Ended /\ AllBuilt /\ NmSucceeds /\ LinkMode # "Embedded-Separate") =>
        ConflictsReported

\* the same for the runs in which HTSLIB_MODE is not separate
C6_WhenModeNotSeparate ==
    (Ended /\ AllBuilt /\ NmSucceeds /\ HTSLIB_MODE # "separate") =>
        ConflictsReported

-----------------------------------------------------------------------------
(* C7 *)

\* C7: the check runs at most once and only after every extension is
\* built; a run that built every extension has run it once when the link
\* mode is not Embedded-Separate, and has not run it, and has not failed,
\* when the link mode is Embedded-Separate.
C7_CheckRunsOnce ==
    /\ counts.check <= 1
    /\ counts.check = 1 => AllBuilt
    /\ (Ended /\ AllBuilt) =>
           IF LinkMode = "Embedded-Separate"
           THEN counts.check = 0 /\ pc = "done"
           ELSE counts.check = 1

-----------------------------------------------------------------------------
(* C8 *)

NmWarnings ==
    {"skipping symbol collision check (invoking nm failed: OSError)",
     "skipping symbol collision check (invoking nm failed)"}

\* C8: when nm fails for some extension, the check that ran is skipped
\* with a warning: the run is done without an exception and no conflict
\* entry is logged.
C8_NmFailureSkipsCheck ==
    (counts.check = 1 /\ ~NmSucceeds) =>
        /\ pc = "done"
        /\ exc = None
        /\ conflicts = {}
        /\ log \cap NmWarnings # {}

C8_Witness ==
    /\ counts.check = 1
    /\ nm_out[3].status = "CalledProcessError"
    /\ "foo" \in SymbolTable(1) \cap SymbolTable(2)
    /\ pc = "done"
    /\ "skipping symbol collision check (invoking nm failed)" \in log

-----------------------------------------------------------------------------
(* C9 *)

Building == "building 'libhts.a'" \in log

Skipping == "skipping 'libhts.a' (already built)" \in log

\* prebuild_libchtslib has passed line 598
HookRan == "creating htslib/config_vars.h" \in log

\* X exists decides between make and the message about skipping it
MakeDecidedBy(X) ==
    /\ Building <=> ~Skipping
    /\ Building <=> (pc = "run_make" \/ counts.make = 1)
    /\ pc = "run_make" => (force \/ ~X)
    /\ Skipping => (~force /\ X)

\* the object files that the first module links against exist
ObjectsExist == Range(htslib_objects) \subseteq files

ArchiveExists == "htslib/libhts.a" \in files

\* C9: in Embedded-Shared mode make is run exactly when the
\* object files that the mode links against do not exist or force is set.
C9_ObjectsDecide ==
    (LinkMode = "Embedded-Shared" /\ HookRan) => MakeDecidedBy(ObjectsExist)

\* what line 600 does instead: when HTSLIB_MODE is shared or separate, make
\* is run exactly when htslib/libhts.a does not exist or force is set, and
\* otherwise the skip is logged; for any other HTSLIB_MODE make is never run.
MakeFollowsArchive ==
    /\ counts.make <= 1
    /\ (environ_get("HTSLIB_MODE", "shared") \in {"shared", "separate"}
        /\ HookRan) => MakeDecidedBy(ArchiveExists)
    /\ environ_get("HTSLIB_MODE", "shared") \notin {"shared", "separate"} =>
           /\ pc # "run_make"
           /\ counts.make = 0
           /\ ~Building
           /\ ~Skipping

-----------------------------------------------------------------------------
(* C10 *)

InvalidMode ==
    /\ "HTSLIB_MODE" \in DOMAIN environ
    /\ environ["HTSLIB_MODE"] \notin {"shared", "separate", "external"}

NoConfigureScript == "htslib/configure" \notin files

\* the positions after line 508
Past508 ==
    {"line510", "line564", "build_extension", "run_make", "compile",
     "line300", "done"}

\* a missing configure script ends configure_library with a ValueError
\* before any configure run or change of directory
MissingScriptFatal ==
    (environ_get("HTSLIB_MODE", "shared") \in {"shared", "separate"}
     /\ NoConfigureScript) =>
        /\ pc \in {"start", "line444", "configure_library", "raised"}
        /\ pc = "raised" => exc = "ValueError: configure script does not exist"
        /\ counts.configure = 0
        /\ counts.chdir = 0
        /\ built = <<>>

\* C10 as stated: for every environment an invalid mode ends the run with
\* an error before any module is built, and so does a missing configure
\* script, before any configure run or change of directory.
C10_AlwaysFatal ==
    /\ InvalidMode => (pc \notin Past508 /\ modules = <<>> /\ built = <<>>)
    /\ MissingScriptFatal

\* C10: without an external library directory an invalid mode ends the run
\* with a ValueError before any module is declared or built; when the mode
\* is shared or separate a missing configure script ends the run with a
\* ValueError before any configure run or change of directory.
C10_FatalConfiguration ==
    /\ (InvalidMode /\ ~truthy(environ_get("HTSLIB_LIBRARY_DIR", None))) =>
           /\ pc \in {"start", "line444", "line478", "raised"}
           /\ pc = "raised" => exc = "ValueError: unknown HTSLIB value"
           /\ modules = <<>>
           /\ built = <<>>
    /\ MissingScriptFatal

C10_Witness ==
    /\ pc = "raised"
    /\ exc = "ValueError: unknown HTSLIB value"
    /\ environ_get("HTSLIB_MODE", "shared") = "bogus"
    /\ counts.configure = 0

-----------------------------------------------------------------------------
(* C11 *)

\* the library names of lines 571-580
InternalLibraries ==
    Range(internal_htslib_libraries \o internal_samtools_libraries \o
          internal_pysamutil_libraries)

\* the name under which the linker finds the extension "pysam.lib<x>":
\* its file is lib<x><suffix>, so -l<x><suffix without its last part>
ProducedLibrary ==
    [name \in Range(ModuleNames) |->
        splitext_root(SubSeq(name, Len("pysam.lib") + 1, Len(name)) \o suffix)]

\* the position of the module called name in the declared list, or 0
Position(name) ==
    IF \E i \in 1..Len(modules) : modules[i].name = name
    THEN CHOOSE i \in 1..Len(modules) : modules[i].name = name
    ELSE 0

\* C11: once declared, the list has libchtslib before libcsamtools and
\* libcbcftools, these before libcutils, and libcutils before every other
\* module; every internal library a module names is produced by a module
\* declared strictly earlier; the modules built so far are the first ones
\* of the list in its order; and make for the vendored library runs only
\* while no module is built.
C11_DependencyOrder ==
    /\ modules = <<>> => built = <<>>
    /\ modules # <<>> =>
           /\ Position("pysam.libchtslib") = 1
           /\ {Position("pysam.libcsamtools"),
               Position("pysam.libcbcftools")} = {2, 3}
           /\ Position("pysam.libcutils") = 4
           /\ Len(modules) = Len(ModuleNames)
           /\ \A i \in 1..Len(modules) :
                  \A lib \in Range(modules[i].libraries) \cap InternalLibraries :
                      \E j \in 1..(i - 1) :
                          ProducedLibrary[modules[j].name] = lib
           /\ Len(built) <= Len(modules)
           /\ \A i \in 1..Len(built) : built[i] = modules[i].name
           /\ Len(built) = next_ext - 1
    /\ pc = "run_make" => (built = <<>> /\ next_ext = 1)
    /\ counts.make = 0 => ~(Building /\ built # <<>>)

C11_Witness ==
    /\ pc = "done"
    /\ counts.make = 1
    /\ Len(built) = Len(ModuleNames)
    /\ built[4] = "pysam.libcutils"
    /\ "cutils.abi3" \in Range(modules[5].libraries)

-----------------------------------------------------------------------------
(* C12 *)

SamtoolsHeader == "samtools/samtools_config_vars.h"

\* where each variable is in the header
HeaderLine == [CC |-> 1, CPPFLAGS |-> 2, CFLAGS |-> 3, LDFLAGS |-> 4, LIBS |-> 5]

\* the value that the samtools header defines for var
Merged(var) ==
    LET line == config_vars[SamtoolsHeader][HeaderLine[var]]
        before == "#define SAMTOOLS_" \o var \o " \""
    IN  SubSeq(line, Len(before) + 1, Len(line) - 1)

\* the option for a (name, value) pair of define_macros
MacroOption(m) ==
    IF m[2] = None THEN "-D" \o m[1] ELSE "-D" \o m[1] \o "=" \o m[2]

\* C12: in the header written for an extension, CPPFLAGS, CFLAGS and
\* LDFLAGS each contain the value the environment gives that variable, CC
\* is the environment's compiler when it gives one, the platform's CFLAGS,
\* CCSHARED and LDFLAGS are kept, and the extension's include dirs, macros,
\* extra compile arguments, library dirs and extra link arguments are all
\* there as well.
C12_MergeKeepsOverrides ==
    pc = "prebuilt" =>
        LET ext == modules[next_ext]
        IN  /\ \A v \in {"CPPFLAGS", "CFLAGS", "LDFLAGS"} \cap DOMAIN environ :
                   is_substring(environ[v], Merged(v))
            /\ "CC" \in DOMAIN environ => Merged("CC") = environ["CC"]
            /\ \A v \in {"CFLAGS", "LDFLAGS"} \cap DOMAIN sysconf :
                   is_substring(sysconf[v], Merged(v))
            /\ "CCSHARED" \in DOMAIN sysconf =>
                   is_substring(sysconf["CCSHARED"], Merged("CFLAGS"))
            /\ \A x \in Range(ext.extra_compile_args) :
                   is_substring(x, Merged("CFLAGS"))
            /\ \A x \in Range(ext.extra_link_args) :
                   is_substring(x, Merged("LDFLAGS"))
            /\ \A x \in Range(ext.library_dirs) :
                   is_substring("-L" \o x, Merged("LDFLAGS"))
            /\ \A x \in Range(ext.include_dirs) :
                   is_substring("-I" \o x, Merged("CPPFLAGS"))
            /\ \A m \in Range(ext.define_macros) :
                   is_substring(MacroOption(m), Merged("CPPFLAGS"))

C12_Witness ==
    /\ pc = "prebuilt"
    /\ DOMAIN environ = {"CC", "CPPFLAGS", "CFLAGS", "LDFLAGS"}
    /\ DOMAIN sysconf = {"CC", "CPPFLAGS", "CFLAGS", "LDFLAGS", "CCSHARED"}
    /\ Merged("CC") = "clang"
    /\ Merged("CFLAGS") = "-g -O2 -fPIC -Wno-unused"
    /\ Merged("CPPFLAGS") =
           "-DFROM_ENV '-I/src/my pysam/htslib' -DBUILDING_WHEEL -DNDEBUG=1"
    /\ Merged("LDFLAGS") =
           "-s -L/opt/lib -O2 -L/src/pysam/pysam -Wl,-rpath,$ORIGIN"

-----------------------------------------------------------------------------
(* C13 *)

\* configure_library has returned and line 455 is passed
Configured == HTSLIB_SOURCE = "builtin"

\* C13: when configure_library returns None the run goes on to line 455
\* without an exception, and from then on htslib/config.h is the empty
\* header: that is what config.py is derived from, and it is there when a
\* module is compiled; when configure_library returns an option, the
\* header is the one configure wrote, and config.py is derived from it.
C13_EmptyConfigHeader ==
    /\ pc = "line455" => exc = None
    /\ (Configured /\ htslib_configure_options = None) =>
           /\ config_h = "empty"
           /\ config_py \in {None, "empty"}
    /\ (Configured /\ htslib_configure_options # None) =>
           /\ config_h = "configure"
           /\ config_py \in {None, "configure"}
    /\ (Configured /\ (built # <<>> \/ pc \in {"run_make", "compile"})) =>
           config_py # None

C13_Witness ==
    /\ pc = "done"
    /\ LinkMode = "Embedded-Shared"
    /\ htslib_configure_options = None
    /\ counts.configure >= 2
    /\ config_h = "empty"
    /\ config_py = "empty"
    /\ Len(built) = Len(ModuleNames)

-----------------------------------------------------------------------------
(* C14 *)

\* what make lib-static and the compiler or linker raise
BuildErrors == {"CalledProcessError", "CompileError"}

\* a tool failed while the declared modules were being built
BuildFailed == modules # <<>> /\ exc \in BuildErrors

\* the run stopped at the module that failed: the modules before it are
\* built and no other, make ran at most once, the check did not run
StoppedAtFailure ==
    /\ pc = "raised"
    /\ next_ext \in 1..Len(modules)
    /\ built = [i \in 1..(next_ext - 1) |-> modules[i].name]
    /\ counts.make <= 1
    /\ exc = "CalledProcessError" => (counts.make = 1 /\ built = <<>>)
    /\ counts.check = 0
    /\ conflicts = {}
    /\ defined_symbols = <<>>

\* C14: no step follows an exception, and when make or the compiler fails
\* during the build the run has stopped at the failing module.
C14_FailFast ==
    [][pc # "raised" /\ (BuildFailed' => StoppedAtFailure')]_vars

C14_Witness ==
    /\ pc = "raised"
    /\ exc = "CompileError"
    /\ counts.make = 1
    /\ built = <<"pysam.libchtslib", "pysam.libcsamtools", "pysam.libcbcftools">>
    /\ next_ext = 4

-----------------------------------------------------------------------------
(* C15 *)

\* the entries of the listing: the name and the type of each line
NmEntries ==
    {[sym |-> split(l, " ")[1], type |-> split(l, " ")[2]] :
        l \in Range(nm_out[1].lines)}

\* the set that the call returned
Returned == defined_symbols[1]

\* undefined and weak entries
UndefinedOrWeak == {"U", "W", "w", "V"}

\* the types that line 99 leaves out
LeftOut == {"U", "F", "N", "W", "w"}

Reserved(sym) == SubSeq(sym, 1, 1) \in {"_", "$", ".", "@"}

\* the name without the underscore that macOS puts before it
Undecorated(sym) ==
    IF SubSeq(sym, 1, 1) = "_" THEN SubSeq(sym, 2, Len(sym)) ELSE sym

\* the name that is compared across modules
Compared(sym) == IF IS_DARWIN THEN Undecorated(sym) ELSE sym

\* C15: every returned symbol comes from an entry that is neither
\* undefined nor weak, no returned symbol begins with "_", "$", "." or "@"
\* on any platform, and on macOS the names are returned without their
\* leading underscore.
C15_ReservedIgnoredEverywhere ==
    pc = "nm_done" =>
        /\ Returned \subseteq
               {Compared(e.sym) : e \in {x \in NmEntries :
                                            x.type \notin UndefinedOrWeak}}
        /\ \A s \in Returned : ~Reserved(s)

\* C15 as the code has it: the entries of type U, F, N, W and w are left
\* out; elsewhere than on macOS the names that begin with "_", "$", "." or
\* "@" are left out too and the others are returned as they are; on macOS
\* every other name is returned, without its leading underscore if it has
\* one; __pyx_CommonTypesMetaclass_get_module is never returned.
C15_DefinedSymbols ==
    pc = "nm_done" =>
        LET kept == {e \in NmEntries : e.type \notin LeftOut}
        IN  Returned =
                (IF IS_DARWIN
                 THEN {Undecorated(e.sym) : e \in kept}
                 ELSE {e.sym : e \in {x \in kept : ~Reserved(x.sym)}})
                \ {"__pyx_CommonTypesMetaclass_get_module"}

C15_Witness ==
    /\ pc = "nm_done"
    /\ IS_DARWIN
    /\ nm_out[1].lines = <<"_foo T 10 4", "$x T 10 4">>
    /\ Returned = {"foo", "$x"}

====
